---- MODULE Spec2Model ----
(***************************************************************************)
(* One bridge session of src/index.js: the closure created by              *)
(* wss.on("connection") for a /media-stream connection.  It owns the       *)
(* telephony socket `ws`, the AI socket `openAiWs` and five session        *)
(* fields.  Every handler runs to completion (Node's event loop), so each  *)
(* handler is one action.                                                  *)
(***************************************************************************)
EXTENDS Integers, Sequences, FiniteSets, TLC

\* ---------------------------------------------------------------- bounds
\* largest media.timestamp an inbound telephony media event carries
MaxTs == 2
\* largest number of marks sent and not yet acknowledged by the telephony side
MaxUnacked == 2

\* ------------------------------------------------------- program values
\* JavaScript null of responseStartTimestampTwilio (timestamps are >= 0)
NoTs == -1
\* JavaScript null / undefined / absent of a string field
NoId == "null"

StreamSids == {"S1", "S2"}
ItemIds == {"X"}
\* base64 text is a sequence of one-character strings
Payloads == {<<"A", "A", "A", "A">>, <<"Q", "U", "I", "=">>}
Deltas == {<< >>, <<"B", "B", "B">>, <<"Q", "U", "I", "=">>}
Timestamps == 0..MaxTs

\* ----------------------------------------------------------- base64
\* Buffer.from(s, "base64").toString("base64"): decode up to the first "=",
\* a trailing group of 2 or 3 characters yields 1 or 2 bytes, a trailing
\* single character yields none; then encode with padding.
B64Alphabet ==
  <<"A","B","C","D","E","F","G","H","I","J","K","L","M","N","O","P",
    "Q","R","S","T","U","V","W","X","Y","Z","a","b","c","d","e","f",
    "g","h","i","j","k","l","m","n","o","p","q","r","s","t","u","v",
    "w","x","y","z","0","1","2","3","4","5","6","7","8","9","+","/">>

B64Index(c) == (CHOOSE i \in 1..64 : B64Alphabet[i] = c) - 1

B64Char(n) == B64Alphabet[n + 1]

RECURSIVE B64Sextets(_)
B64Sextets(s) ==
  IF s = << >> \/ Head(s) = "=" THEN << >>
  ELSE <<B64Index(Head(s))>> \o B64Sextets(Tail(s))

RECURSIVE B64Decode(_)
B64Decode(x) ==
  IF Len(x) < 2 THEN << >>
  ELSE IF Len(x) = 2 THEN <<x[1] * 4 + (x[2] \div 16)>>
  ELSE IF Len(x) = 3 THEN
    <<x[1] * 4 + (x[2] \div 16), (x[2] % 16) * 16 + (x[3] \div 4)>>
  ELSE <<x[1] * 4 + (x[2] \div 16), (x[2] % 16) * 16 + (x[3] \div 4),
         (x[3] % 4) * 64 + x[4]>> \o B64Decode(SubSeq(x, 5, Len(x)))

RECURSIVE B64Encode(_)
B64Encode(b) ==
  IF b = << >> THEN << >>
  ELSE IF Len(b) = 1 THEN
    <<B64Char(b[1] \div 4), B64Char((b[1] % 4) * 16), "=", "=">>
  ELSE IF Len(b) = 2 THEN
    <<B64Char(b[1] \div 4), B64Char((b[1] % 4) * 16 + (b[2] \div 16)),
      B64Char((b[2] % 16) * 4), "=">>
  ELSE <<B64Char(b[1] \div 4), B64Char((b[1] % 4) * 16 + (b[2] \div 16)),
         B64Char((b[2] % 16) * 4 + (b[3] \div 64)), B64Char(b[3] % 64)>>
       \o B64Encode(SubSeq(b, 4, Len(b)))

Reencode(delta) == B64Encode(B64Decode(B64Sextets(delta)))

\* ------------------------------------------------------------- state
VARIABLES
  streamSid,                    \* NoId or the stream identifier
  latestMediaTimestamp,
  lastAssistantItem,            \* NoId or an item identifier
  markQueue,
  responseStartTimestampTwilio, \* NoTs or a timestamp
  wsState,                      \* readyState of the telephony socket
  aiState,                      \* readyState of openAiWs
  timer,                        \* setTimeout(initializeSession, 100) pending
  out,                          \* the send() calls of the last handler run, in order
  ev,                           \* the event the last handler run was given
  respStreaming,                \* the AI's current response has sent audio
  unacked,                      \* marks sent that the telephony side has not acknowledged
  stale,                        \* those of them sent before the latest clear
  peerOk                        \* no acknowledgment came with no mark unacknowledged

vars == <<streamSid, latestMediaTimestamp, lastAssistantItem, markQueue,
          responseStartTimestampTwilio, wsState, aiState, timer, out, ev,
          respStreaming, unacked, stale, peerOk>>

session == <<streamSid, latestMediaTimestamp, lastAssistantItem, markQueue,
             responseStartTimestampTwilio>>

\* one send() call: the socket, the event and the fields the code fills in
Msg(link, type, sid, payload, item, ms) ==
  [link |-> link, type |-> type, streamSid |-> sid, payload |-> payload,
   item |-> item, ms |-> ms]

TwMedia(sid, payload) == Msg("tw", "media", sid, payload, NoId, 0)
TwMarkMsg(sid) == Msg("tw", "mark", sid, << >>, NoId, 0)
TwClear(sid) == Msg("tw", "clear", sid, << >>, NoId, 0)
AiAppend(payload) == Msg("ai", "input_audio_buffer.append", NoId, payload, NoId, 0)
AiTruncate(item, ms) == Msg("ai", "conversation.item.truncate", NoId, << >>, item, ms)
AiSessionUpdate == Msg("ai", "session.update", NoId, << >>, NoId, 0)

\* the event a handler was given: the socket it came from, its type, and
\* the fields the handlers read (streamSid or item_id, timestamp, payload)
Event(link, type, id, ts, payload) ==
  [link |-> link, type |-> type, id |-> id, ts |-> ts, payload |-> payload]

TwOut == SelectSeq(out, LAMBDA m : m.link = "tw")
AiOut == SelectSeq(out, LAMBDA m : m.link = "ai")
Marks(msgs) == Len(SelectSeq(msgs, LAMBDA m : m.type = "mark"))

Init ==
  /\ streamSid = NoId
  /\ latestMediaTimestamp = 0
  /\ lastAssistantItem = NoId
  /\ markQueue = << >>
  /\ responseStartTimestampTwilio = NoTs
  /\ wsState = "OPEN"
  /\ aiState = "CONNECTING"
  /\ timer = FALSE
  /\ out = << >>
  /\ ev = Event("none", "connection", NoId, 0, << >>)
  /\ respStreaming = FALSE
  /\ unacked = 0
  /\ stale = 0
  /\ peerOk = TRUE

\* ------------------------------------------------ handleSpeechStartedEvent
\* the guard without its test of responseStartTimestampTwilio
C4_SpeechGuardQueueOnly(queue, rst) == Len(queue) > 0

SpeechGuard(queue, rst) == Len(queue) > 0 /\ rst # NoTs

\* the subtraction with its operands exchanged
C3_ElapsedTimeSwapped(latest, rst) == rst - latest

ElapsedTime(latest, rst) == latest - rst

TruncateEvents(item, elapsed) ==
  IF item # NoId THEN <<AiTruncate(item, elapsed)>> ELSE << >>

SpeechStartedOut ==
  IF SpeechGuard(markQueue, responseStartTimestampTwilio)
  THEN TruncateEvents(lastAssistantItem,
                      ElapsedTime(latestMediaTimestamp, responseStartTimestampTwilio))
       \o <<TwClear(streamSid)>>
  ELSE << >>

handleSpeechStartedEvent ==
  /\ out' = SpeechStartedOut
  /\ IF SpeechGuard(markQueue, responseStartTimestampTwilio)
     THEN /\ markQueue' = << >>
          /\ lastAssistantItem' = NoId
          /\ responseStartTimestampTwilio' = NoTs
     ELSE UNCHANGED <<markQueue, lastAssistantItem, responseStartTimestampTwilio>>
  /\ UNCHANGED <<streamSid, latestMediaTimestamp>>

\* ----------------------------------------------------------------- sendMark
SendMarkOut(sid) == IF sid # NoId THEN <<TwMarkMsg(sid)>> ELSE << >>

\* a push without the streamSid test
C19_SendMarkQueueUnguarded(queue, sid) == Append(queue, "responsePart")

SendMarkQueue(queue, sid) ==
  IF sid # NoId THEN Append(queue, "responsePart") ELSE queue

\* ------------------------------------------------------- openAiWs handlers
AiReceiving == aiState \in {"OPEN", "CLOSING"}

\* openAiWs.on("open")
AiOpen ==
  /\ aiState = "CONNECTING"
  /\ aiState' = "OPEN"
  /\ timer' = TRUE
  /\ ev' = Event("ai", "open", NoId, 0, << >>)
  /\ out' = << >>
  /\ UNCHANGED <<session, wsState, respStreaming, unacked, stale, peerOk>>

\* the setTimeout callback: initializeSession
InitializeSession ==
  /\ timer
  /\ timer' = FALSE
  /\ out' = <<AiSessionUpdate>>
  /\ ev' = Event("ai", "timeout", NoId, 0, << >>)
  /\ UNCHANGED <<session, wsState, aiState, respStreaming, unacked, stale, peerOk>>

\* !responseStartTimestampTwilio
StartUnset(rst) == rst = NoTs \/ rst = 0

\* a delta handler that sends the mark before the media event
C14_DeltaOutMarkFirst(delta) ==
  IF delta # << >>
  THEN SendMarkOut(streamSid) \o <<TwMedia(streamSid, Reencode(delta))>>
  ELSE << >>

DeltaOut(delta) ==
  IF delta # << >>
  THEN <<TwMedia(streamSid, Reencode(delta))>> \o SendMarkOut(streamSid)
  ELSE << >>

\* openAiWs.on("message"), type response.audio.delta
AiDelta(delta, item) ==
  /\ AiReceiving
  /\ unacked + Marks(DeltaOut(delta)) <= MaxUnacked
  /\ out' = DeltaOut(delta)
  /\ unacked' = unacked + Marks(DeltaOut(delta))
  /\ IF delta # << >>
     THEN /\ responseStartTimestampTwilio' =
               IF StartUnset(responseStartTimestampTwilio)
               THEN latestMediaTimestamp ELSE responseStartTimestampTwilio
          /\ lastAssistantItem' = IF item # NoId THEN item ELSE lastAssistantItem
          /\ markQueue' = SendMarkQueue(markQueue, streamSid)
          /\ respStreaming' = TRUE
     ELSE UNCHANGED <<responseStartTimestampTwilio, lastAssistantItem, markQueue,
                      respStreaming>>
  /\ ev' = Event("ai", "response.audio.delta", item, 0, delta)
  /\ UNCHANGED <<streamSid, latestMediaTimestamp, wsState, aiState, timer, stale, peerOk>>

\* openAiWs.on("message"), type input_audio_buffer.speech_started
AiSpeechStarted ==
  /\ AiReceiving
  /\ handleSpeechStartedEvent
  /\ ev' = Event("ai", "input_audio_buffer.speech_started", NoId, 0, << >>)
  /\ stale' = IF SpeechGuard(markQueue, responseStartTimestampTwilio)
              THEN unacked ELSE stale
  /\ UNCHANGED <<wsState, aiState, timer, respStreaming, unacked, peerOk>>

\* openAiWs.on("message"), type response.done: logged only; the response
\* whose deltas were arriving is over
AiResponseDone ==
  /\ AiReceiving
  /\ respStreaming' = FALSE
  /\ ev' = Event("ai", "response.done", NoId, 0, << >>)
  /\ out' = << >>
  /\ UNCHANGED <<session, wsState, aiState, timer, unacked, stale, peerOk>>

\* openAiWs.on("message"), any other type, or a payload JSON.parse rejects
AiOther(type) ==
  /\ AiReceiving
  /\ ev' = Event("ai", type, NoId, 0, << >>)
  /\ out' = << >>
  /\ UNCHANGED <<session, wsState, aiState, timer, respStreaming, unacked, stale, peerOk>>

\* a close handler of openAiWs that also closes the telephony socket
C12_AiCloseClosesPeer ==
  /\ aiState # "CLOSED"
  /\ aiState' = "CLOSED"
  /\ wsState' = "CLOSED"
  /\ ev' = Event("ai", "close", NoId, 0, << >>)
  /\ out' = << >>
  /\ UNCHANGED <<session, timer, respStreaming, unacked, stale, peerOk>>

\* openAiWs.on("close")
AiClose ==
  /\ aiState # "CLOSED"
  /\ aiState' = "CLOSED"
  /\ ev' = Event("ai", "close", NoId, 0, << >>)
  /\ out' = << >>
  /\ UNCHANGED <<session, wsState, timer, respStreaming, unacked, stale, peerOk>>

\* openAiWs.on("error")
AiError ==
  /\ aiState # "CLOSED"
  /\ ev' = Event("ai", "error", NoId, 0, << >>)
  /\ out' = << >>
  /\ UNCHANGED <<session, wsState, aiState, timer, respStreaming, unacked, stale, peerOk>>

\* ------------------------------------------------------------- ws handlers
\* the forward without its readyState test
C7_MediaOutUnguarded(payload) == <<AiAppend(payload)>>

\* a forward that only tests that openAiWs is not closed
C15_MediaOutUnlessClosed(payload) ==
  IF aiState # "CLOSED" THEN <<AiAppend(payload)>> ELSE << >>

MediaOut(payload) ==
  IF aiState = "OPEN" THEN <<AiAppend(payload)>> ELSE << >>

MediaTimestamp(ts) == ts

\* ws.on("message"), case "media"
TwMediaIn(ts, payload) ==
  /\ wsState = "OPEN"
  /\ latestMediaTimestamp' = MediaTimestamp(ts)
  /\ out' = MediaOut(payload)
  /\ ev' = Event("tw", "media", NoId, ts, payload)
  /\ UNCHANGED <<streamSid, lastAssistantItem, markQueue, responseStartTimestampTwilio,
                 wsState, aiState, timer, respStreaming, unacked, stale, peerOk>>

\* a start that leaves latestMediaTimestamp alone
C10_StartTimestampKept(latest) == latest

StartTimestamp(latest) == 0

\* a start that leaves responseStartTimestampTwilio alone
C18_StartResponseStartKept(rst) == rst

StartResponseStart(rst) == NoTs

\* ws.on("message"), case "start"
TwStart(sid) ==
  /\ wsState = "OPEN"
  /\ streamSid' = sid
  /\ responseStartTimestampTwilio' = StartResponseStart(responseStartTimestampTwilio)
  /\ latestMediaTimestamp' = StartTimestamp(latestMediaTimestamp)
  /\ ev' = Event("tw", "start", sid, 0, << >>)
  /\ out' = << >>
  /\ UNCHANGED <<lastAssistantItem, markQueue, wsState, aiState, timer,
                 respStreaming, unacked, stale, peerOk>>

\* an acknowledgment that pops nothing
C8_MarkShiftNone(queue) == queue

\* an acknowledgment that empties the queue
C9_MarkShiftAll(queue) == << >>

MarkShift(queue) == IF Len(queue) > 0 THEN Tail(queue) ELSE queue

\* ws.on("message"), case "mark".  An acknowledgment answers the oldest mark
\* the session sent and that is not acknowledged yet, when there is one.
TwMark ==
  /\ wsState = "OPEN"
  /\ markQueue' = MarkShift(markQueue)
  /\ IF unacked > 0
     THEN unacked' = unacked - 1 /\ UNCHANGED peerOk
     ELSE peerOk' = FALSE /\ UNCHANGED unacked
  /\ stale' = IF stale > 0 THEN stale - 1 ELSE 0
  /\ out' = << >>
  /\ ev' = Event("tw", "mark", NoId, 0, << >>)
  /\ UNCHANGED <<streamSid, latestMediaTimestamp, lastAssistantItem,
                 responseStartTimestampTwilio, wsState, aiState, timer,
                 respStreaming>>

\* a catch block that closes the telephony socket on a payload it cannot parse
C13_TwOtherCloses(type) ==
  /\ wsState = "OPEN"
  /\ wsState' = IF type = "malformed" THEN "CLOSED" ELSE wsState
  /\ ev' = Event("tw", type, NoId, 0, << >>)
  /\ out' = << >>
  /\ UNCHANGED <<session, aiState, timer, respStreaming, unacked, stale, peerOk>>

\* ws.on("message"), the default case, or a payload JSON.parse rejects
TwOther(type) ==
  /\ wsState = "OPEN"
  /\ ev' = Event("tw", type, NoId, 0, << >>)
  /\ out' = << >>
  /\ UNCHANGED <<session, wsState, aiState, timer, respStreaming, unacked, stale, peerOk>>

\* a telephony close that leaves openAiWs alone
C11_CloseIfOpenNever(state) == state

\* if (openAiWs.readyState === WebSocket.OPEN) openAiWs.close()
CloseIfOpen(state) == IF state = "OPEN" THEN "CLOSING" ELSE state

\* ws.on("close")
TwClose ==
  /\ wsState = "OPEN"
  /\ wsState' = "CLOSED"
  /\ aiState' = CloseIfOpen(aiState)
  /\ ev' = Event("tw", "close", NoId, 0, << >>)
  /\ out' = << >>
  /\ UNCHANGED <<session, timer, respStreaming, unacked, stale, peerOk>>

Next ==
  \/ AiOpen
  \/ InitializeSession
  \/ \E delta \in Deltas, item \in ItemIds \cup {NoId} : AiDelta(delta, item)
  \/ AiSpeechStarted
  \/ AiResponseDone
  \/ \E type \in {"session.created", "malformed"} : AiOther(type)
  \/ AiClose
  \/ AiError
  \/ \E ts \in Timestamps, payload \in Payloads : TwMediaIn(ts, payload)
  \/ \E sid \in StreamSids \cup {NoId} : TwStart(sid)
  \/ TwMark
  \/ \E type \in {"stop", "malformed"} : TwOther(type)
  \/ TwClose

Spec == Init /\ [][Next]_vars

\* ===================================================== properties C1..C10
IsDelta(e) == e.link = "ai" /\ e.type = "response.audio.delta"
IsAudioDelta(e) == IsDelta(e) /\ e.payload # << >>
IsSpeechStarted(e) == e.link = "ai" /\ e.type = "input_audio_buffer.speech_started"
IsMedia(e) == e.link = "tw" /\ e.type = "media"
IsStart(e) == e.link = "tw" /\ e.type = "start"
IsMark(e) == e.link = "tw" /\ e.type = "mark"

\* C1: every response.audio.delta event that carries audio, in every session
\* state (whatever streamSid is), makes the bridge send exactly one telephony
\* media event followed by exactly one telephony mark event, and markQueue
\* grows by exactly one.
C1_DeltaSendsMediaThenMark ==
  [][IsAudioDelta(ev') =>
       /\ Len(out') = 2
       /\ out'[1].link = "tw" /\ out'[1].type = "media"
       /\ out'[2].link = "tw" /\ out'[2].type = "mark"
       /\ Len(markQueue') = Len(markQueue) + 1]_vars

\* C2: no telephony event (media, mark, clear) is sent while streamSid is unset.
C2_NoTelephonySendWithoutStreamSid ==
  \A i \in 1..Len(out) : out[i].link = "tw" => out[i].streamSid # NoId

\* C3: a speech_started processed with markQueue non-empty and
\* responseStartTimestampTwilio set sends a truncate for lastAssistantItem
\* (content index 0, audio_end_ms = latestMediaTimestamp -
\* responseStartTimestampTwilio) if and only if lastAssistantItem is set,
\* then one telephony clear for streamSid, and ends with markQueue empty,
\* lastAssistantItem unset and responseStartTimestampTwilio unset; streamSid
\* and latestMediaTimestamp are unchanged.
C3_Interruption ==
  [][(/\ IsSpeechStarted(ev')
      /\ Len(markQueue) > 0
      /\ responseStartTimestampTwilio # NoTs) =>
       /\ out' = (IF lastAssistantItem # NoId
                  THEN <<AiTruncate(lastAssistantItem,
                                    latestMediaTimestamp - responseStartTimestampTwilio)>>
                  ELSE << >>) \o <<TwClear(streamSid)>>
       /\ markQueue' = << >>
       /\ lastAssistantItem' = NoId
       /\ responseStartTimestampTwilio' = NoTs
       /\ streamSid' = streamSid
       /\ latestMediaTimestamp' = latestMediaTimestamp]_vars

\* C3 witness: an interruption that truncated item X at 1 ms and cleared stream S1
C3_Witness ==
  /\ IsSpeechStarted(ev)
  /\ out = <<AiTruncate("X", 1), TwClear("S1")>>
  /\ markQueue = << >>
  /\ lastAssistantItem = NoId
  /\ responseStartTimestampTwilio = NoTs

\* C4: a speech_started processed with markQueue empty or
\* responseStartTimestampTwilio unset sends nothing and changes no session field.
C4_NoOpGuard ==
  [][(/\ IsSpeechStarted(ev')
      /\ (Len(markQueue) = 0 \/ responseStartTimestampTwilio = NoTs)) =>
       /\ out' = << >>
       /\ session' = session]_vars

\* C4 witness: a speech_started that did nothing although marks are queued,
\* because a start had unset responseStartTimestampTwilio
C4_Witness ==
  /\ IsSpeechStarted(ev)
  /\ out = << >>
  /\ Len(markQueue) > 0
  /\ responseStartTimestampTwilio = NoTs

\* C5: once a response's first audio delta has set
\* responseStartTimestampTwilio (to any value >= 0), no later delta of the
\* same response changes it; only an interruption or a start unsets it.
C5_StartSetOncePerResponse ==
  [][/\ (/\ IsAudioDelta(ev')
         /\ respStreaming
         /\ responseStartTimestampTwilio # NoTs) =>
          responseStartTimestampTwilio' = responseStartTimestampTwilio
     /\ (responseStartTimestampTwilio # NoTs /\ responseStartTimestampTwilio' = NoTs) =>
          (IsSpeechStarted(ev') \/ IsStart(ev'))]_vars

\* C6: responseStartTimestampTwilio is cleared between responses, so after
\* the first audio delta of a new response it is the latestMediaTimestamp
\* current at that delta, whether the previous response was interrupted or
\* ran to completion.
C6_StartClearedBetweenResponses ==
  [][(IsAudioDelta(ev') /\ ~respStreaming) =>
       responseStartTimestampTwilio' = latestMediaTimestamp]_vars

\* C7 as claimed: every inbound media event sets latestMediaTimestamp to its
\* timestamp and sends exactly one input_audio_buffer.append with its payload.
C7_EveryMediaAppended ==
  [][IsMedia(ev') =>
       /\ latestMediaTimestamp' = ev'.ts
       /\ out' = <<AiAppend(ev'.payload)>>]_vars

\* C7 amended: every inbound media event sets latestMediaTimestamp to its
\* timestamp; processed while openAiWs is open it sends exactly one
\* input_audio_buffer.append with the identical payload, otherwise nothing.
C7_MediaAppendedWhenOpen ==
  [][IsMedia(ev') =>
       /\ latestMediaTimestamp' = ev'.ts
       /\ out' = IF aiState = "OPEN" THEN <<AiAppend(ev'.payload)>> ELSE << >>]_vars

\* C7 witness: a media event with timestamp 2 was forwarded
C7_Witness ==
  /\ IsMedia(ev)
  /\ ev.ts = 2
  /\ latestMediaTimestamp = 2
  /\ out = <<AiAppend(<<"Q", "U", "I", "=">>)>>

\* C8: while the telephony side has acknowledged only marks it was sent,
\* markQueue is no longer than the number of marks sent and not acknowledged.
C8_QueueLowerBound == peerOk => Len(markQueue) <= unacked

\* C8 witness: after an interruption and further audio the queue is strictly
\* shorter than the number of unacknowledged marks
C8_Witness ==
  /\ peerOk
  /\ Len(markQueue) = 1
  /\ unacked = 2

\* C9: an inbound mark removes the head of markQueue when it is non-empty and
\* does nothing when it is empty; it sends nothing and changes no other field.
C9_MarkPopsOne ==
  [][IsMark(ev') =>
       /\ markQueue' = IF Len(markQueue) > 0 THEN Tail(markQueue) ELSE << >>
       /\ Len(markQueue) - 1 <= Len(markQueue') /\ Len(markQueue') <= Len(markQueue)
       /\ out' = << >>
       /\ UNCHANGED <<streamSid, latestMediaTimestamp, lastAssistantItem,
                      responseStartTimestampTwilio>>]_vars

\* C9 witness: a mark was processed and one entry is left, so two were queued
C9_Witness ==
  /\ IsMark(ev)
  /\ Len(markQueue) = 1

\* C10: a start stores its stream identifier, resets latestMediaTimestamp to 0
\* and responseStartTimestampTwilio to unset, and sends nothing.
C10_StartResets ==
  [][IsStart(ev') =>
       /\ streamSid' = ev'.id
       /\ latestMediaTimestamp' = 0
       /\ responseStartTimestampTwilio' = NoTs
       /\ out' = << >>]_vars

\* C10 witness: a second stream S2 started while a response was streaming
\* and its marks were queued
C10_Witness ==
  /\ IsStart(ev)
  /\ streamSid = "S2"
  /\ latestMediaTimestamp = 0
  /\ responseStartTimestampTwilio = NoTs
  /\ respStreaming
  /\ Len(markQueue) > 0

\* ==================================================== properties C11..C20
IsTwClose(e) == e.link = "tw" /\ e.type = "close"
IsAiClose(e) == e.link = "ai" /\ e.type = "close"
IsAiError(e) == e.link = "ai" /\ e.type = "error"
IsAiOpen(e) == e.link = "ai" /\ e.type = "open"
IsMalformed(e) == e.type = "malformed"

\* C11: when the telephony socket closes, openAiWs is closed if it is open at
\* that moment; a socket that is closing or closed is never opened again.
C11_TelephonyCloseClosesAi ==
  [][/\ IsTwClose(ev') =>
          /\ wsState' = "CLOSED"
          /\ (aiState = "OPEN" => aiState' = "CLOSING")
          /\ (aiState # "OPEN" => aiState' = aiState)
     /\ (wsState = "CLOSED" => wsState' = "CLOSED")
     /\ (aiState = "CLOSED" => aiState' = "CLOSED")
     /\ (aiState = "CLOSING" => aiState' \in {"CLOSING", "CLOSED"})]_vars

\* C11 witness: the telephony close found openAiWs open and closed it
C11_Witness ==
  /\ IsTwClose(ev)
  /\ wsState = "CLOSED"
  /\ aiState = "CLOSING"

\* C12: a close or an error of openAiWs leaves the telephony socket as it was,
\* changes no session field and sends nothing; with openAiWs closed, inbound
\* start, media and mark events are still processed.
C12_AiCloseLeavesTelephony ==
  [][/\ (IsAiClose(ev') \/ IsAiError(ev')) =>
          /\ wsState' = wsState
          /\ session' = session
          /\ out' = << >>
     /\ (aiState = "CLOSED" /\ IsMedia(ev')) => latestMediaTimestamp' = ev'.ts
     /\ (aiState = "CLOSED" /\ IsStart(ev')) => streamSid' = ev'.id
     /\ (aiState = "CLOSED" /\ IsMark(ev') /\ Len(markQueue) > 0) =>
          markQueue' = Tail(markQueue)
     /\ (aiState = "CLOSED" /\ wsState = "OPEN") =>
          /\ ENABLED TwMark
          /\ ENABLED TwStart("S1")
          /\ ENABLED TwMediaIn(1, <<"A", "A", "A", "A">>)]_vars

\* C12 witness: after openAiWs closed, with the telephony socket still open,
\* a media event moved latestMediaTimestamp to 2
C12_Witness ==
  /\ aiState = "CLOSED"
  /\ wsState = "OPEN"
  /\ IsMedia(ev)
  /\ ev.ts = 2
  /\ latestMediaTimestamp = 2
  /\ out = << >>

\* C13: a message a socket's handler cannot parse sends nothing, changes no
\* session field and leaves both sockets in the state they were in.
C13_MalformedDiscarded ==
  [][IsMalformed(ev') =>
       /\ out' = << >>
       /\ session' = session
       /\ wsState' = wsState
       /\ aiState' = aiState]_vars

\* C13 witness: a malformed telephony message was discarded in the middle of
\* a response, with marks queued and both sockets open
C13_Witness ==
  /\ IsMalformed(ev)
  /\ ev.link = "tw"
  /\ wsState = "OPEN"
  /\ aiState = "OPEN"
  /\ Len(markQueue) > 0
  /\ responseStartTimestampTwilio # NoTs

\* C14 as claimed: with streamSid set to S, a response.audio.delta with
\* non-empty payload P sends media{S, P} and then mark{S}, pushes one token,
\* records the delta's item_id when it has one, and sets an unset
\* responseStartTimestampTwilio to latestMediaTimestamp.
C14_DeltaForwardsPayload ==
  [][(IsAudioDelta(ev') /\ streamSid # NoId) =>
       /\ out' = <<TwMedia(streamSid, ev'.payload), TwMarkMsg(streamSid)>>
       /\ markQueue' = Append(markQueue, "responsePart")
       /\ lastAssistantItem' = (IF ev'.id # NoId THEN ev'.id ELSE lastAssistantItem)
       /\ (responseStartTimestampTwilio = NoTs =>
             responseStartTimestampTwilio' = latestMediaTimestamp)]_vars

\* C14 amended: as above, but the media payload is the base64 re-encoding of
\* the bytes P decodes to: P itself when P is canonical base64 ("QUI="),
\* and for instance "BBA=" when P is "BBB".
C14_DeltaForwardsReencoded ==
  [][(IsAudioDelta(ev') /\ streamSid # NoId) =>
       /\ out' = <<TwMedia(streamSid, Reencode(ev'.payload)), TwMarkMsg(streamSid)>>
       /\ (ev'.payload = <<"Q", "U", "I", "=">> => out'[1].payload = ev'.payload)
       /\ (ev'.payload = <<"B", "B", "B">> => out'[1].payload = <<"B", "B", "A", "=">>)
       /\ markQueue' = Append(markQueue, "responsePart")
       /\ lastAssistantItem' = (IF ev'.id # NoId THEN ev'.id ELSE lastAssistantItem)
       /\ (responseStartTimestampTwilio = NoTs =>
             responseStartTimestampTwilio' = latestMediaTimestamp)]_vars

\* C14 witness: on stream S1, after a media event with timestamp 2, the delta
\* "BBB" of item X was sent as "BBA=" followed by its mark
C14_Witness ==
  /\ IsAudioDelta(ev)
  /\ ev.payload = <<"B", "B", "B">>
  /\ out = <<TwMedia("S1", <<"B", "B", "A", "=">>), TwMarkMsg("S1")>>
  /\ lastAssistantItem = "X"
  /\ latestMediaTimestamp = 2
  /\ responseStartTimestampTwilio = 2
  /\ Len(markQueue) = 1

\* C15: an inbound media event processed while openAiWs is not open sends no
\* input_audio_buffer.append and still sets latestMediaTimestamp to its
\* timestamp, changing nothing else; its payload is not kept: every append
\* ever sent carries the payload of the media event being processed, with
\* openAiWs open.
C15_MediaDroppedWhenNotOpen ==
  [][/\ (IsMedia(ev') /\ aiState # "OPEN") =>
          /\ out' = << >>
          /\ latestMediaTimestamp' = ev'.ts
          /\ UNCHANGED <<streamSid, lastAssistantItem, markQueue,
                         responseStartTimestampTwilio, wsState, aiState, timer>>
     /\ \A i \in 1..Len(out') :
          out'[i].type = "input_audio_buffer.append" =>
            /\ IsMedia(ev')
            /\ out'[i].payload = ev'.payload
            /\ aiState = "OPEN"]_vars

\* C15 witness: a media event with timestamp 2 arrived while openAiWs was
\* still connecting; nothing was sent and latestMediaTimestamp is 2
C15_Witness ==
  /\ IsMedia(ev)
  /\ ev.ts = 2
  /\ aiState = "CONNECTING"
  /\ out = << >>
  /\ latestMediaTimestamp = 2

\* C16: once the telephony socket has closed, openAiWs does not stay open and
\* nothing is sent on it: no session.update, append or truncate goes out on
\* an open openAiWs after the telephony close.
C16_NoAiSendAfterTelephonyClose ==
  wsState = "CLOSED" => ~(aiState = "OPEN" /\ AiOut # << >>)

\* marks sent after the latest clear that the telephony side has not acknowledged
FreshUnacked == unacked - stale

HasClear(msgs) == \E i \in 1..Len(msgs) : msgs[i].link = "tw" /\ msgs[i].type = "clear"

\* C17: a speech_started processed while the telephony side holds at least
\* one assistant frame sent after the latest interruption and not yet
\* acknowledged sends a telephony clear, also when acknowledgments of marks
\* sent before that interruption arrive after it.  Stated for the sessions
\* in which responseStartTimestampTwilio is set and the telephony side has
\* acknowledged only marks it was sent.
C17_ClearWhileAudioInFlight ==
  [][(/\ IsSpeechStarted(ev')
      /\ peerOk
      /\ responseStartTimestampTwilio # NoTs
      /\ FreshUnacked > 0) => HasClear(out')]_vars

TimestampsOrdered ==
  responseStartTimestampTwilio # NoTs =>
    responseStartTimestampTwilio <= latestMediaTimestamp

\* C18: responseStartTimestampTwilio <= latestMediaTimestamp whenever the
\* former is set, and every truncate carries audio_end_ms >= 0: the property
\* holds initially and every handler preserves it, provided each media event
\* carries a timestamp no smaller than the latestMediaTimestamp it replaces
\* (timestamps non-decreasing since the last start).
C18_ElapsedNonNegative ==
  [][(/\ TimestampsOrdered
      /\ (IsMedia(ev') => ev'.ts >= latestMediaTimestamp)) =>
       /\ TimestampsOrdered'
       /\ \A i \in 1..Len(out') :
            out'[i].type = "conversation.item.truncate" => out'[i].ms >= 0]_vars

\* C18 witness: on a second stream S2 an interruption truncated at 2 ms
C18_Witness ==
  /\ IsSpeechStarted(ev)
  /\ streamSid = "S2"
  /\ Len(out) = 2
  /\ out[1].type = "conversation.item.truncate"
  /\ out[1].ms = 2
  /\ latestMediaTimestamp = 2

QueueHasStream == Len(markQueue) > 0 => streamSid # NoId

\* C19: markQueue non-empty implies streamSid set, and every mark and clear
\* sent carries a set streamSid: the property holds initially and every
\* handler preserves it, provided each start event carries a stream identifier.
C19_QueueImpliesStreamSid ==
  [][(/\ QueueHasStream
      /\ (IsStart(ev') => ev'.id # NoId)) =>
       /\ QueueHasStream'
       /\ \A i \in 1..Len(out') :
            (out'[i].link = "tw" /\ out'[i].type \in {"mark", "clear"}) =>
              out'[i].streamSid # NoId]_vars

\* C19 witness: an interruption on stream S2 sent clear{S2} and nothing else
C19_Witness ==
  /\ IsSpeechStarted(ev)
  /\ out = <<TwClear("S2")>>
  /\ streamSid = "S2"

\* C20: session.update is the first event sent on openAiWs: while the
\* timeout that sends it is pending, no append and no truncate is sent.
C20_SessionUpdateFirst == timer => AiOut = << >>

====
